---------------------------- MODULE Spec2Model ----------------------------
(***************************************************************************)
(* Model of the Longhorn VolumeSnapshotter plugin                          *)
(* (internal/plugin/volumesnapshotterplugin.go): the in-memory registry of *)
(* volumes and snapshots kept by one VolumeSnapshotter, the generation of  *)
(* snapshot ids, and the GetVolumeID / SetVolumeID identity rewrite.       *)
(*                                                                         *)
(* Two specifications are given over the same state.  Spec runs the        *)
(* plugin's methods one call at a time, each method one action.  SpecConc  *)
(* runs calls of the methods that write the registry statement by          *)
(* statement, each call on a goroutine of its own as the plugin server     *)
(* runs them, since the plugin holds no lock.                              *)
(***************************************************************************)
EXTENDS Naturals, Sequences, FiniteSets, TLC

\* ------------------------------------------------------------------ bounds

\* Number of distinct suffixes the random name generator can produce.
NumSuffix == 2

\* Largest number of candidates one CreateSnapshot call draws in Spec.
MaxDraws == 2

\* Number of calls in SpecConc, each served on a goroutine of its own.
NumCalls == 2

Suffixes == 1..NumSuffix

Calls == 1..NumCalls

\* ------------------------------------------------------------- input sets

NoTags == [k \in {} |-> ""]

NoCapacity == [r \in {} |-> ""]

\* The (volumeID, volumeAZ, tags) triples CreateSnapshot is called with.
SnapshotRequests ==
    { [volumeID |-> "pv-1", volumeAZ |-> "zone-a", tags |-> ("k" :> "v")],
      [volumeID |-> "pv-1", volumeAZ |-> "zone-b", tags |-> NoTags],
      [volumeID |-> "pv-2", volumeAZ |-> "zone-a", tags |-> NoTags] }

\* The unstructured PersistentVolume objects handed to GetVolumeID and
\* SetVolumeID.  kind "malformed" is content that does not convert to a
\* v1.PersistentVolume; extra marks fields v1.PersistentVolume does not have.
UnstructuredPVs ==
    { [kind |-> "pv", name |-> "pv-1", storageClassName |-> "fast",
       capacity |-> ("storage" :> "10Gi"), extra |-> TRUE],
      [kind |-> "pv", name |-> "pv-2", storageClassName |-> "slow",
       capacity |-> NoCapacity, extra |-> FALSE],
      [kind |-> "pv", name |-> "", storageClassName |-> "",
       capacity |-> ("storage" :> "10Gi"), extra |-> FALSE],
      [kind |-> "pv", name |-> "pv-2", storageClassName |-> "",
       capacity |-> ("storage" :> "10Gi"), extra |-> FALSE],
      [kind |-> "malformed", name |-> "", storageClassName |-> "",
       capacity |-> NoCapacity, extra |-> FALSE] }

\* The unstructured PersistentVolume objects handed to SetVolumeID.
RestoredPVs == { u \in UnstructuredPVs : u.storageClassName # "" \/ u.kind = "malformed" }

\* The volume ids SetVolumeID is called with.
VolumeIDs == {"pv-1", "does-not-exist"}

\* The configuration maps Init is called with.
Configs == { ("namespace" :> "velero") }

\* How the environment answers Init: no in-cluster configuration, a failing
\* client constructor, or success.
InitOutcomes == {"noClusterConfig", "k8sClientFails", "lhClientFails", "ok"}

\* ------------------------------------------------------------------ state

VARIABLES
    config,          \* p.config; nil, a map without entries, until Init
    volumes,         \* p.volumes: volume name -> Volume
    volumesIsNil,    \* p.volumes == nil
    snapshots,       \* p.snapshots: snapshot id -> Snapshot
    snapshotsIsNil,  \* p.snapshots == nil
    k8sClient,       \* p.k8sClient: "nil" or "set"
    lhClient,        \* p.lhClient: "nil" or "set"
    lhSnapshots,     \* Snapshot resources existing in namespace longhorn-system
    last,            \* the call that returned last: its arguments and results
    returned,        \* successful CreateSnapshot returns: record -> how often
    pc,              \* SpecConc: each call's position
    frame            \* SpecConc: each call's arguments and locals

vars == << config, volumes, volumesIsNil, snapshots, snapshotsIsNil,
           k8sClient, lhClient, lhSnapshots, last, returned,
           pc, frame >>

plugin == << config, volumes, volumesIsNil, snapshots, snapshotsIsNil,
             k8sClient, lhClient >>

registry == << volumes, volumesIsNil, snapshots, snapshotsIsNil >>

remote == << lhSnapshots >>

goroutines == << pc, frame >>

\* ------------------------------------------------------------ data model

EmptyMap == [k \in {} |-> ""]

NilPV == [kind |-> "nil", name |-> "", storageClassName |-> "",
          capacity |-> NoCapacity, extra |-> FALSE]

\* The zero value of resource.Quantity.
ZeroQuantity == "0"

NoArgs == [volumeID |-> "", volumeAZ |-> "", tags |-> NoTags,
           snapshotID |-> "", pv |-> NilPV, draws |-> << >>]

NoRet == [id |-> "", pv |-> NilPV, ready |-> FALSE, iops |-> "nil"]

\* A finished call: the method, the arguments and locals it ended with, what it
\* returned and its error ("" for nil).
Returned(op, args, ret, err) == [op |-> op, args |-> args, ret |-> ret, err |-> err]

\* ---------------------------------------------------- identifier generator

\* bsutil.GenerateName(prefix): the prefix, a dash and a random token; s is
\* the token drawn.
GenerateName(prefix, s) == prefix \o "-" \o ToString(s)

\* "velero-" + bsutil.GenerateName("snap"), for each token the generator can draw.
CandidateIDs == [s \in Suffixes |-> "velero-" \o GenerateName("snap", s)]

\* snapshotID = "velero-" + bsutil.GenerateName("snap") when s is drawn.
CandidateID(s) == CandidateIDs[s]

\* Faulty variant: the loop never continues.
Collisions_Never(snaps, stream) == 0

\* The number of turns of the for loop that end in continue when the generator
\* draws stream[1], stream[2], ...: the candidates found in the snapshot map.
RECURSIVE Collisions(_, _)
Collisions(snaps, stream) ==
    IF stream = << >> THEN 0
    ELSE IF CandidateID(Head(stream)) \in DOMAIN snaps
         THEN 1 + Collisions(snaps, Tail(stream))
         ELSE 0

\* Faulty variant: the first candidate is taken without a retry.
GeneratedID_FirstDraw(snaps, stream) == CandidateID(stream[1])

\* The value of snapshotID when the loop breaks.
GeneratedID(snaps, stream) == CandidateID(stream[Collisions(snaps, stream) + 1])

\* The loop breaks within the draws of stream.
LoopBreaks(snaps, stream) == Collisions(snaps, stream) < Len(stream)

\* ---------------------------------------------------------------- registry

\* Faulty variant: the volume is recorded under the name of its zone.
VolumeOfSnapshotRequest_NameFromZone(volumeID, volumeAZ) ==
    [volName |-> volumeAZ, volAZ |-> volumeAZ, storageClass |-> "",
     dataEngine |-> "v1", size |-> ZeroQuantity]

\* &Volume{volName: volumeID, volAZ: volumeAZ, dataEngine: "v1"}
VolumeOfSnapshotRequest(volumeID, volumeAZ) ==
    [volName |-> volumeID, volAZ |-> volumeAZ, storageClass |-> "",
     dataEngine |-> "v1", size |-> ZeroQuantity]

\* pv.Spec.Capacity[v1.ResourceStorage]: the zero Quantity when the key is absent.
StorageCapacity(pv) ==
    IF "storage" \in DOMAIN pv.Capacity THEN pv.Capacity["storage"] ELSE ZeroQuantity

\* Faulty variant: the volume is recorded under the wrong field of the object.
VolumeOfPV_NameFromClass(pv) ==
    [volName |-> pv.StorageClassName, volAZ |-> "", storageClass |-> pv.StorageClassName,
     dataEngine |-> "v1", size |-> ZeroQuantity]

\* &Volume{volName: pv.Name, storageClass: ..., size: ..., dataEngine: "v1"}
VolumeOfPV(pv) ==
    [volName |-> pv.Name, volAZ |-> "", storageClass |-> pv.StorageClassName,
     dataEngine |-> "v1", size |-> StorageCapacity(pv)]

\* Faulty variant: the tags are not kept.
SnapshotOf_NoTags(volumeID, volumeAZ, tags) ==
    [volName |-> volumeID, volAZ |-> volumeAZ, tags |-> NoTags]

\* &Snapshot{volName: volumeID, volAZ: volumeAZ, tags: tags}
SnapshotOf(volumeID, volumeAZ, tags) ==
    [volName |-> volumeID, volAZ |-> volumeAZ, tags |-> tags]

\* m[key] = value on a Go map.
MapAssign(m, key, value) ==
    [k \in DOMAIN m \cup {key} |-> IF k = key THEN value ELSE m[k]]

\* Faulty variant: the volume is not written.
RememberVolume_Forget(vols, name, vol) == vols

\* Faulty variant: the volume is written without the existence check.
RememberVolume_Overwrite(vols, name, vol) == MapAssign(vols, name, vol)

\* if _, exists := p.volumes[name]; !exists { p.volumes[name] = vol }
RememberVolume(vols, name, vol) ==
    IF name \in DOMAIN vols THEN vols ELSE MapAssign(vols, name, vol)

\* Faulty variant: the snapshot is not written.
RememberSnapshot_Forget(snaps, snapshotID, snap) == snaps

\* p.snapshots[snapshotID] = &Snapshot{...}
RememberSnapshot(snaps, snapshotID, snap) == MapAssign(snaps, snapshotID, snap)

\* ------------------------------------------------------------- conversion

\* runtime.DefaultUnstructuredConverter.FromUnstructured(content, pv): the
\* fields of v1.PersistentVolume are read, other fields are ignored, and
\* content of the wrong shape is an error.
FromUnstructured(u) ==
    IF u.kind = "pv"
    THEN [err |-> "",
          pv |-> [Name |-> u.name, StorageClassName |-> u.storageClassName,
                  Capacity |-> u.capacity]]
    ELSE [err |-> "ConversionError",
          pv |-> [Name |-> "", StorageClassName |-> "", Capacity |-> NoCapacity]]

\* runtime.DefaultUnstructuredConverter.ToUnstructured(pv), wrapped in
\* unstructured.Unstructured: only the fields of v1.PersistentVolume.
ToUnstructured(pv) ==
    [kind |-> "pv", name |-> pv.Name, storageClassName |-> pv.StorageClassName,
     capacity |-> pv.Capacity, extra |-> FALSE]

\* ----------------------------------------------------------- construction

\* NewVolumeSnapshotter: every field but the logger has its zero value.
NewVolumeSnapshotter ==
    /\ config = EmptyMap
    /\ volumes = EmptyMap
    /\ volumesIsNil = TRUE
    /\ snapshots = EmptyMap
    /\ snapshotsIsNil = TRUE
    /\ k8sClient = "nil"
    /\ lhClient = "nil"
    /\ lhSnapshots = {}
    /\ last = Returned("NewVolumeSnapshotter", NoArgs, NoRet, "")
    /\ returned = EmptyMap
    /\ pc = [t \in Calls |-> "idle"]
    /\ frame = [t \in Calls |-> NoArgs]

\* ------------------------------------------------------------- bookkeeping

\* The arguments and locals of a CreateSnapshot call.
SnapshotArgs(req, snapshotID, draws) ==
    [NoArgs EXCEPT !.volumeID = req.volumeID, !.volumeAZ = req.volumeAZ,
                   !.tags = req.tags, !.snapshotID = snapshotID,
                   !.draws = draws]

\* One more successful CreateSnapshot return in the log.
LogReturn(log, args) ==
    LET e == [id |-> args.snapshotID, volumeID |-> args.volumeID,
              volumeAZ |-> args.volumeAZ, tags |-> args.tags]
    IN  IF e \in DOMAIN log THEN [log EXCEPT ![e] = @ + 1]
        ELSE MapAssign(log, e, 1)

\* The Snapshot resource CreateSnapshot submits.
SnapshotCR(snapshotID, volumeID) ==
    [name |-> snapshotID, volume |-> volumeID, createSnapshot |-> TRUE]

\* Snapshots("longhorn-system").Create answers nil or an error: the answer is
\* the environment's, whatever the resource submitted.
CreateSucceeds(cr, created) == created

\* ------------------------------------------------- the methods, one at a time

\* Faulty variant: Init makes both maps anew on every call.
Init_FreshMaps(cfg, outcome) ==
    /\ config' = cfg
    /\ volumes' = EmptyMap
    /\ volumesIsNil' = FALSE
    /\ snapshots' = EmptyMap
    /\ snapshotsIsNil' = FALSE
    /\ k8sClient' = IF outcome \in {"lhClientFails", "ok"} THEN "set" ELSE k8sClient
    /\ lhClient' = IF outcome = "ok" THEN "set" ELSE lhClient
    /\ last' = Returned("Init", NoArgs, NoRet,
                        IF outcome = "ok" THEN "" ELSE "error")
    /\ UNCHANGED << remote, returned, goroutines >>

\* Init(config): outcome is the environment's answer.
Init(cfg, outcome) ==
    /\ config' = cfg
    /\ volumes' = IF volumesIsNil THEN EmptyMap ELSE volumes
    /\ volumesIsNil' = FALSE
    /\ snapshots' = IF snapshotsIsNil THEN EmptyMap ELSE snapshots
    /\ snapshotsIsNil' = FALSE
    /\ k8sClient' = IF outcome \in {"lhClientFails", "ok"} THEN "set" ELSE k8sClient
    /\ lhClient' = IF outcome = "ok" THEN "set" ELSE lhClient
    /\ last' = Returned("Init", NoArgs, NoRet,
                        CASE outcome = "noClusterConfig" -> "error fetching cluster config"
                          [] outcome = "k8sClientFails" -> "failed to create k8s client"
                          [] outcome = "lhClientFails" -> "failed to create longhorn client"
                          [] OTHER -> "")
    /\ UNCHANGED << remote, returned, goroutines >>

\* How far a CreateSnapshot call for volumeID gets: a write to a nil map and a
\* method call on a nil client panic.
SnapshotOutcome(volumeID, cr, created) ==
    CASE volumesIsNil /\ volumeID \notin DOMAIN volumes -> "panicVolumes"
      [] snapshotsIsNil -> "panicSnapshots"
      [] lhClient = "nil" -> "panicClient"
      [] CreateSucceeds(cr, created) -> "created"
      [] OTHER -> "createFails"

\* CreateSnapshot(volumeID, volumeAZ, tags): stream is what the name generator
\* draws, created the environment's answer to the Create request.
CreateSnapshot(req, stream, created) ==
    /\ LoopBreaks(snapshots, stream)
    /\ LET snapshotID == GeneratedID(snapshots, stream)
           args == SnapshotArgs(req, snapshotID, stream)
           cr == SnapshotCR(snapshotID, req.volumeID)
           outcome == SnapshotOutcome(req.volumeID, cr, created)
       IN  /\ volumes' = IF outcome = "panicVolumes" THEN volumes
                         ELSE RememberVolume(volumes, req.volumeID,
                                  VolumeOfSnapshotRequest(req.volumeID, req.volumeAZ))
           /\ snapshots' = IF outcome \in {"panicVolumes", "panicSnapshots"}
                           THEN snapshots
                           ELSE RememberSnapshot(snapshots, snapshotID,
                                    SnapshotOf(req.volumeID, req.volumeAZ, req.tags))
           /\ lhSnapshots' = IF outcome = "created"
                             THEN lhSnapshots \cup {cr} ELSE lhSnapshots
           /\ returned' = IF outcome = "created"
                          THEN LogReturn(returned, args) ELSE returned
           /\ last' = Returned("CreateSnapshot", args,
                               [NoRet EXCEPT !.id = IF outcome = "created"
                                                    THEN snapshotID ELSE ""],
                               CASE outcome = "created" -> ""
                                 [] outcome = "createFails" -> "RemoteCallFailure"
                                 [] OTHER -> "panic")
    /\ UNCHANGED << config, volumesIsNil, snapshotsIsNil, k8sClient, lhClient,
                    goroutines >>

\* Faulty variant: DeleteSnapshot removes the id from the snapshot map.
DeleteSnapshot_Removes(snapshotID) ==
    /\ snapshots' = [id \in DOMAIN snapshots \ {snapshotID} |-> snapshots[id]]
    /\ last' = Returned("DeleteSnapshot", [NoArgs EXCEPT !.snapshotID = snapshotID],
                        NoRet, "")
    /\ UNCHANGED << config, volumes, volumesIsNil, snapshotsIsNil, k8sClient,
                    lhClient, remote, returned, goroutines >>

\* Faulty variant: DeleteSnapshot deletes the Snapshot resource of that name.
DeleteSnapshot_CallsRemote(snapshotID) ==
    /\ lhSnapshots' = IF lhClient = "nil" THEN lhSnapshots
                      ELSE { c \in lhSnapshots : c.name # snapshotID }
    /\ last' = Returned("DeleteSnapshot", [NoArgs EXCEPT !.snapshotID = snapshotID],
                        NoRet, IF lhClient = "nil" THEN "panic" ELSE "")
    /\ UNCHANGED << plugin, returned, goroutines >>

\* DeleteSnapshot(snapshotID)
DeleteSnapshot(snapshotID) ==
    /\ last' = Returned("DeleteSnapshot", [NoArgs EXCEPT !.snapshotID = snapshotID],
                        NoRet, "")
    /\ UNCHANGED << plugin, remote, returned, goroutines >>

\* GetVolumeInfo(volumeID, volumeAZ)
GetVolumeInfo(volumeID, volumeAZ) ==
    /\ last' = Returned("GetVolumeInfo",
                        [NoArgs EXCEPT !.volumeID = volumeID, !.volumeAZ = volumeAZ],
                        [NoRet EXCEPT !.id = "longhorn-volume", !.iops = "nil"], "")
    /\ UNCHANGED << plugin, remote, returned, goroutines >>

\* Faulty variant: IsVolumeReady answers whether the volume is registered.
IsVolumeReady_Lookup(volumeID, volumeAZ) ==
    /\ last' = Returned("IsVolumeReady",
                        [NoArgs EXCEPT !.volumeID = volumeID, !.volumeAZ = volumeAZ],
                        [NoRet EXCEPT !.ready = volumeID \in DOMAIN volumes], "")
    /\ UNCHANGED << plugin, remote, returned, goroutines >>

\* IsVolumeReady(volumeID, volumeAZ)
IsVolumeReady(volumeID, volumeAZ) ==
    /\ last' = Returned("IsVolumeReady",
                        [NoArgs EXCEPT !.volumeID = volumeID, !.volumeAZ = volumeAZ],
                        [NoRet EXCEPT !.ready = TRUE], "")
    /\ UNCHANGED << plugin, remote, returned, goroutines >>

\* CreateVolumeFromSnapshot(snapshotID, volumeType, volumeAZ, iops): the log
\* line dereferences iops.
CreateVolumeFromSnapshot(snapshotID, volumeAZ, iopsIsNil) ==
    /\ last' = Returned("CreateVolumeFromSnapshot",
                        [NoArgs EXCEPT !.snapshotID = snapshotID, !.volumeAZ = volumeAZ],
                        NoRet, IF iopsIsNil THEN "panic" ELSE "")
    /\ UNCHANGED << plugin, remote, returned, goroutines >>

\* Faulty variant: the storage class is not looked at.
MissingField_NameOnly(pv) == pv.Name = ""

\* if pv.Name == "" || pv.Spec.StorageClassName == ""
MissingField(pv) == pv.Name = "" \/ pv.StorageClassName = ""

\* GetVolumeID(unstructuredPV)
GetVolumeID(u) ==
    LET conv == FromUnstructured(u)
        pv == conv.pv
        args == [NoArgs EXCEPT !.pv = u]
        outcome == CASE conv.err # "" -> "conversion"
                     [] MissingField(pv) -> "sentinel"
                     [] volumesIsNil /\ pv.Name \notin DOMAIN volumes -> "panicVolumes"
                     [] OTHER -> "ok"
    IN  /\ volumes' = IF outcome = "ok"
                      THEN RememberVolume(volumes, pv.Name, VolumeOfPV(pv))
                      ELSE volumes
        /\ last' = Returned("GetVolumeID", args,
                            [NoRet EXCEPT !.id = IF outcome = "ok" THEN pv.Name ELSE ""],
                            CASE outcome = "conversion" -> conv.err
                              [] outcome = "panicVolumes" -> "panic"
                              [] OTHER -> "")
        /\ UNCHANGED << config, volumesIsNil, snapshots, snapshotsIsNil, k8sClient,
                        lhClient, remote, returned, goroutines >>

\* pv.Name = vol.volName
Rename(pv, vol) == [pv EXCEPT !.Name = vol.volName]

\* Faulty variant: an unknown volume id gives the object back unchanged, without error.
SetVolumeIDResult_Lenient(vols, u, volumeID) ==
    LET conv == FromUnstructured(u)
    IN  CASE conv.err # "" -> [pv |-> NilPV, err |-> conv.err]
          [] volumeID \notin DOMAIN vols -> [pv |-> ToUnstructured(conv.pv), err |-> ""]
          [] OTHER -> [pv |-> ToUnstructured(Rename(conv.pv, vols[volumeID])),
                       err |-> ""]

\* What SetVolumeID(unstructuredPV, volumeID) returns when the volume map is
\* vols: the rewritten object and the error.
SetVolumeIDResult(vols, u, volumeID) ==
    LET conv == FromUnstructured(u)
    IN  CASE conv.err # "" -> [pv |-> NilPV, err |-> conv.err]
          [] volumeID \notin DOMAIN vols -> [pv |-> NilPV, err |-> "NotFoundError"]
          [] OTHER -> [pv |-> ToUnstructured(Rename(conv.pv, vols[volumeID])),
                       err |-> ""]

\* SetVolumeID(unstructuredPV, volumeID)
SetVolumeID(u, volumeID) ==
    LET res == SetVolumeIDResult(volumes, u, volumeID)
    IN  /\ last' = Returned("SetVolumeID",
                            [NoArgs EXCEPT !.pv = u, !.volumeID = volumeID],
                            [NoRet EXCEPT !.pv = res.pv], res.err)
        /\ UNCHANGED << plugin, remote, returned, goroutines >>

\* The snapshot ids DeleteSnapshot is called with.
SnapshotIDs == { CandidateID(1), "unknown" }

\* The volume ids IsVolumeReady and GetVolumeInfo are asked about.
QueriedVolumeIDs == {"pv-1", "does-not-exist"}

\* The draw sequences of at most MaxDraws draws that end the loop of a call
\* starting with the snapshot map snaps at their last draw: draws of ids in
\* use, then one not in use.
DrawStreams(snaps) ==
    LET used == { s \in Suffixes : CandidateID(s) \in DOMAIN snaps }
    IN  UNION { { pre \o << s >> : pre \in [1..k -> used], s \in Suffixes \ used } :
                k \in 0..(MaxDraws - 1) }

Next ==
    \/ \E cfg \in Configs, outcome \in InitOutcomes : Init(cfg, outcome)
    \/ \E req \in SnapshotRequests, stream \in DrawStreams(snapshots),
          created \in BOOLEAN :
          CreateSnapshot(req, stream, created)
    \/ \E snapshotID \in SnapshotIDs : DeleteSnapshot(snapshotID)
    \/ \E volumeID \in QueriedVolumeIDs : GetVolumeInfo(volumeID, "zone-a")
    \/ \E volumeID \in QueriedVolumeIDs : IsVolumeReady(volumeID, "zone-a")
    \/ \E iopsIsNil \in BOOLEAN :
          CreateVolumeFromSnapshot(CandidateID(1), "zone-a", iopsIsNil)
    \/ \E u \in UnstructuredPVs : GetVolumeID(u)
    \/ \E u \in RestoredPVs, volumeID \in VolumeIDs : SetVolumeID(u, volumeID)

Spec == NewVolumeSnapshotter /\ [][Next]_vars

\* ------------------------------------- the methods, statement by statement

\* The (volumeID, volumeAZ, tags) triples of the concurrent CreateSnapshot calls.
RacingRequests == { r \in SnapshotRequests : r.volumeID = "pv-1" }

\* The objects of the concurrent GetVolumeID calls.
RacingPVs == { u \in UnstructuredPVs : u.name \in {"pv-1", ""} }

\* The plugin after one successful Init, before any other call.
Initialized ==
    /\ config = ("namespace" :> "velero")
    /\ volumes = EmptyMap
    /\ volumesIsNil = FALSE
    /\ snapshots = EmptyMap
    /\ snapshotsIsNil = FALSE
    /\ k8sClient = "set"
    /\ lhClient = "set"
    /\ lhSnapshots = {}
    /\ last = Returned("Init", NoArgs, NoRet, "")
    /\ returned = EmptyMap
    /\ pc = [t \in Calls |-> "idle"]
    /\ frame = [t \in Calls |-> NoArgs]

\* Call t moves to position to with locals f.
Goto(t, to, f) ==
    /\ pc' = [pc EXCEPT ![t] = to]
    /\ frame' = [frame EXCEPT ![t] = f]

\* Call t ends, by a return or a panic.
Leave(t) == Goto(t, "done", NoArgs)

\* Call t is a call of CreateSnapshot.
EnterCreateSnapshot(t, req) ==
    /\ pc[t] = "idle"
    /\ Goto(t, "generate", SnapshotArgs(req, "", << >>))
    /\ UNCHANGED << plugin, remote, last, returned >>

\* Faulty variant: the loop continues whatever the lookup says.
DrawCandidate_NeverBreaks(t, s) ==
    /\ pc[t] = "generate"
    /\ Goto(t, "generate", [frame[t] EXCEPT !.snapshotID = CandidateID(s)])
    /\ UNCHANGED << plugin, remote, last, returned >>

\* One turn of the for loop: a candidate is drawn and looked up in p.snapshots.
DrawCandidate(t, s) ==
    /\ pc[t] = "generate"
    /\ Goto(t, IF CandidateID(s) \in DOMAIN snapshots
               THEN "generate" ELSE "checkVolume",
            [frame[t] EXCEPT !.snapshotID = CandidateID(s)])
    /\ UNCHANGED << plugin, remote, last, returned >>

\* if _, exists := p.volumes[volumeID]; !exists
CheckVolume(t) ==
    /\ pc[t] = "checkVolume"
    /\ Goto(t, IF frame[t].volumeID \in DOMAIN volumes
               THEN "rememberSnapshot" ELSE "rememberVolume", frame[t])
    /\ UNCHANGED << plugin, remote, last, returned >>

\* Faulty variant: the call goes on without writing the volume.
WriteVolume_Skipped(t) ==
    /\ pc[t] = "rememberVolume"
    /\ Goto(t, "rememberSnapshot", frame[t])
    /\ UNCHANGED << plugin, remote, last, returned >>

\* p.volumes[volumeID] = &Volume{...}
WriteVolume(t) ==
    /\ pc[t] = "rememberVolume"
    /\ IF volumesIsNil
       THEN Leave(t) /\ UNCHANGED volumes
       ELSE /\ volumes' = MapAssign(volumes, frame[t].volumeID,
                              VolumeOfSnapshotRequest(frame[t].volumeID,
                                                      frame[t].volumeAZ))
            /\ Goto(t, "rememberSnapshot", frame[t])
    /\ UNCHANGED << config, volumesIsNil, snapshots, snapshotsIsNil, k8sClient,
                    lhClient, remote, last, returned >>

\* p.snapshots[snapshotID] = &Snapshot{...}
WriteSnapshot(t) ==
    /\ pc[t] = "rememberSnapshot"
    /\ IF snapshotsIsNil
       THEN Leave(t) /\ UNCHANGED snapshots
       ELSE /\ snapshots' = RememberSnapshot(snapshots, frame[t].snapshotID,
                                SnapshotOf(frame[t].volumeID, frame[t].volumeAZ,
                                           frame[t].tags))
            /\ Goto(t, "create", frame[t])
    /\ UNCHANGED << config, volumes, volumesIsNil, snapshotsIsNil, k8sClient,
                    lhClient, remote, last, returned >>

\* p.lhClient.LonghornV1beta2().Snapshots("longhorn-system").Create(...) is
\* issued; a nil client panics.
IssueCreate(t) ==
    /\ pc[t] = "create"
    /\ IF lhClient = "nil" THEN Leave(t) ELSE Goto(t, "inFlight", frame[t])
    /\ UNCHANGED << plugin, remote, last, returned >>

\* Create answers and CreateSnapshot returns.
CreateAnswers(t, created) ==
    /\ pc[t] = "inFlight"
    /\ LET cr == SnapshotCR(frame[t].snapshotID, frame[t].volumeID)
           ok == CreateSucceeds(cr, created)
       IN  /\ lhSnapshots' = IF ok THEN lhSnapshots \cup {cr} ELSE lhSnapshots
           /\ returned' = IF ok THEN LogReturn(returned, frame[t]) ELSE returned
    /\ Leave(t)
    /\ UNCHANGED << plugin, last >>

\* Call t is a call of GetVolumeID; it returns at once for an object that does
\* not convert and for one without name or storage class.
EnterGetVolumeID(t, u) ==
    /\ pc[t] = "idle"
    /\ LET conv == FromUnstructured(u)
       IN  IF conv.err # "" \/ MissingField(conv.pv)
           THEN Leave(t)
           ELSE Goto(t, "checkPV", [NoArgs EXCEPT !.pv = u])
    /\ UNCHANGED << plugin, remote, last, returned >>

\* if _, exists := p.volumes[pv.Name]; !exists
CheckPV(t) ==
    /\ pc[t] = "checkPV"
    /\ IF FromUnstructured(frame[t].pv).pv.Name \in DOMAIN volumes
       THEN Leave(t)
       ELSE Goto(t, "rememberPV", frame[t])
    /\ UNCHANGED << plugin, remote, last, returned >>

\* p.volumes[pv.Name] = &Volume{...}, and GetVolumeID returns.
WritePV(t) ==
    /\ pc[t] = "rememberPV"
    /\ LET pv == FromUnstructured(frame[t].pv).pv
       IN  volumes' = IF volumesIsNil THEN volumes
                      ELSE MapAssign(volumes, pv.Name, VolumeOfPV(pv))
    /\ Leave(t)
    /\ UNCHANGED << config, volumesIsNil, snapshots, snapshotsIsNil, k8sClient,
                    lhClient, remote, last, returned >>

\* The positions at which a call's next statement reads a map, and writes it.
VolumeReaders == {"checkVolume", "checkPV"}

VolumeWriters == {"rememberVolume", "rememberPV"}

SnapshotReaders == {"generate"}

SnapshotWriters == {"rememberSnapshot"}

\* Call t writes a map while call u reads or writes the same map: the
\* Go runtime may detect it and end the process (fatal error: concurrent map
\* writes, or concurrent map read and map write).
ConcurrentMapAccess(t, u) ==
    /\ t # u
    /\ \/ pc[t] \in VolumeWriters /\ pc[u] \in VolumeReaders \cup VolumeWriters
       \/ pc[t] \in SnapshotWriters /\ pc[u] \in SnapshotReaders \cup SnapshotWriters
    /\ pc' = [g \in Calls |-> "crashed"]
    /\ frame' = [g \in Calls |-> NoArgs]
    /\ UNCHANGED << plugin, remote, last, returned >>

NextConc ==
    \/ \E t \in Calls, req \in RacingRequests : EnterCreateSnapshot(t, req)
    \/ \E t \in Calls, s \in Suffixes : DrawCandidate(t, s)
    \/ \E t \in Calls : CheckVolume(t)
    \/ \E t \in Calls : WriteVolume(t)
    \/ \E t \in Calls : WriteSnapshot(t)
    \/ \E t \in Calls : IssueCreate(t)
    \/ \E t \in Calls, created \in BOOLEAN : CreateAnswers(t, created)
    \/ \E t \in Calls, u \in RacingPVs : EnterGetVolumeID(t, u)
    \/ \E t \in Calls : CheckPV(t)
    \/ \E t \in Calls : WritePV(t)
    \/ \E t, u \in Calls : ConcurrentMapAccess(t, u)

SpecConc == Initialized /\ [][NextConc]_vars

\* ------------------------------------------------------------------ claims

\* In Spec every step is one call, and last' holds that call's arguments and
\* results: last'.op names the method that took the step.

\* A turn of call t's loop in which the generator draws a candidate that is
\* not a key of p.snapshots.
DrawsUnused(t) ==
    \E s \in Suffixes :
        /\ CandidateID(s) \notin DOMAIN snapshots
        /\ DrawCandidate(t, s)

\* The concurrent calls with a generator that does not draw candidates in use
\* for ever: a call that stays in the loop gets an unused candidate in the end.
SpecFair ==
    /\ Initialized
    /\ [][NextConc]_vars
    /\ \A t \in Calls : WF_vars(DrawsUnused(t))

\* The volume and snapshot maps are as they were.
RegistryUnchanged ==
    /\ volumes' = volumes
    /\ volumesIsNil' = volumesIsNil
    /\ snapshots' = snapshots
    /\ snapshotsIsNil' = snapshotsIsNil

\* The object converts to a v1.PersistentVolume.
Converts(u) == u.kind = "pv"

\* C1: first write wins.  Once a Volume record exists for a name, no later call
\* removes or changes it: every step keeps each record of the volume map.
C1_FirstWriteWins ==
    [][\A n \in DOMAIN volumes : n \in DOMAIN volumes' /\ volumes'[n] = volumes[n]]_vars

\* A CreateSnapshot call for a registered name with another zone has returned
\* and the record still holds the first zone.
C1_Witness ==
    /\ last.op = "CreateSnapshot"
    /\ last.err = ""
    /\ last.args.volumeID \in DOMAIN volumes
    /\ volumes[last.args.volumeID].volAZ # last.args.volumeAZ
    /\ volumes[last.args.volumeID].storageClass = ""

\* C2: unique snapshot ids.  The ids the successful CreateSnapshot calls have
\* returned are pairwise distinct: no id was returned twice, by calls with the
\* same or with different arguments.
C2_UniqueSnapshotIDs ==
    \A e1, e2 \in DOMAIN returned :
        /\ returned[e1] = 1
        /\ e1.id = e2.id => e1 = e2

\* Two calls have succeeded, the last one after drawing a candidate in use.
C2_Witness ==
    /\ Cardinality(DOMAIN returned) >= 2
    /\ last.op = "CreateSnapshot"
    /\ last.err = ""
    /\ Len(last.args.draws) >= 2

\* C3: no rollback on remote failure.  A CreateSnapshot call whose Create
\* request is issued and fails returns an error and the empty id, and after it
\* the snapshot map holds the record of the generated id and the volume map a
\* record for volumeID.
C3_NoRollbackOnRemoteFailure ==
    [][(/\ \E req \in SnapshotRequests : CreateSnapshot(req, last'.args.draws, FALSE)
        /\ ~volumesIsNil /\ ~snapshotsIsNil /\ lhClient = "set")
       => /\ last'.err # ""
          /\ last'.ret.id = ""
          /\ last'.args.snapshotID \in DOMAIN snapshots'
          /\ snapshots'[last'.args.snapshotID]
               = [volName |-> last'.args.volumeID, volAZ |-> last'.args.volumeAZ,
                  tags |-> last'.args.tags]
          /\ last'.args.volumeID \in DOMAIN volumes']_vars

\* A CreateSnapshot call has failed at the Create request and its records are
\* in the maps.
C3_Witness ==
    /\ last.op = "CreateSnapshot"
    /\ last.err = "RemoteCallFailure"
    /\ last.ret.id = ""
    /\ last.args.snapshotID \in DOMAIN snapshots
    /\ last.args.volumeID \in DOMAIN volumes

\* C4: insert before remote.  While a call's Create request is in flight, the
\* volume map has a record for its volumeID, so that SetVolumeID for that id
\* succeeds for every object that converts, and the snapshot map has a record
\* for its snapshot id.
C4_InsertBeforeRemote ==
    \A t \in Calls :
        pc[t] = "inFlight" =>
            /\ frame[t].volumeID \in DOMAIN volumes
            /\ frame[t].snapshotID \in DOMAIN snapshots
            /\ \A u \in RestoredPVs :
                 Converts(u) => SetVolumeIDResult(volumes, u, frame[t].volumeID).err = ""

\* One call's Create request is in flight while another call is running.
C4_Witness ==
    \E t, u \in Calls :
        /\ t # u
        /\ pc[t] = "inFlight"
        /\ pc[u] \in {"generate", "checkVolume", "checkPV"}

\* C5: unknown-id failure.  SetVolumeID with an object that converts and a
\* volumeId without a record in the volume map fails with the not-found error,
\* returns no object, and leaves the supplied object and both maps as they were.
C5_UnknownIDFails ==
    [][(/\ last'.op = "SetVolumeID"
        /\ Converts(last'.args.pv)
        /\ last'.args.volumeID \notin DOMAIN volumes)
       => /\ last'.err = "NotFoundError"
          /\ last'.ret.pv = NilPV
          /\ \A u \in RestoredPVs :
               SetVolumeID(u, last'.args.volumeID) => last'.args.pv = u
          /\ RegistryUnchanged]_vars

\* SetVolumeID has failed for an unknown id while other volumes are registered.
C5_Witness ==
    /\ last.op = "SetVolumeID"
    /\ Converts(last.args.pv)
    /\ last.args.volumeID = "does-not-exist"
    /\ last.err = "NotFoundError"
    /\ DOMAIN volumes # {}

\* C6: missing-field sentinel.  GetVolumeID on an object that converts and has
\* an empty name or an empty storage class returns the empty id and no error,
\* and leaves both maps as they were.
C6_MissingFieldSentinel ==
    [][(/\ last'.op = "GetVolumeID"
        /\ Converts(last'.args.pv)
        /\ (last'.args.pv.name = "" \/ last'.args.pv.storageClassName = ""))
       => /\ last'.ret.id = ""
          /\ last'.err = ""
          /\ RegistryUnchanged]_vars

\* GetVolumeID has answered the empty id for a named object without storage
\* class, on a plugin whose maps exist.
C6_Witness ==
    /\ last.op = "GetVolumeID"
    /\ Converts(last.args.pv)
    /\ last.args.pv.name # ""
    /\ last.args.pv.storageClassName = ""
    /\ last.ret.id = ""
    /\ last.err = ""
    /\ ~volumesIsNil
    /\ last.args.pv.name \notin DOMAIN volumes

\* C7: identifier round trip.  After Init, GetVolumeID on an object that
\* converts and has a name and a storage class returns the name and registers
\* it; SetVolumeID with an object that converts succeeds for every registered
\* volume id, and for the object's own name it returns an object of that name.
C7_RoundTrip ==
    [][/\ (/\ last'.op = "GetVolumeID"
           /\ Converts(last'.args.pv)
           /\ last'.args.pv.name # ""
           /\ last'.args.pv.storageClassName # ""
           /\ ~volumesIsNil)
          => /\ last'.ret.id = last'.args.pv.name
             /\ last'.err = ""
             /\ last'.args.pv.name \in DOMAIN volumes'
       /\ (/\ last'.op = "SetVolumeID"
           /\ Converts(last'.args.pv)
           /\ last'.args.volumeID \in DOMAIN volumes)
          => /\ last'.err = ""
             /\ Converts(last'.ret.pv)
             /\ last'.args.pv.name = last'.args.volumeID
                  => last'.ret.pv.name = last'.args.volumeID]_vars

\* SetVolumeID has returned an object under its own name, which GetVolumeID
\* had registered.
C7_Witness ==
    /\ last.op = "SetVolumeID"
    /\ last.err = ""
    /\ last.args.pv.name = last.args.volumeID
    /\ last.ret.pv.name = last.args.volumeID
    /\ last.args.volumeID \in DOMAIN volumes
    /\ volumes[last.args.volumeID].storageClass = last.args.pv.storageClassName
    /\ last.args.pv.storageClassName # ""

\* C8: snapshot metadata integrity.  For every successful CreateSnapshot
\* return, now and after any later calls, the snapshot map's record for the
\* returned id holds the volumeID, the zone and the tags of that call.
C8_SnapshotMetadata ==
    \A e \in DOMAIN returned :
        /\ e.id \in DOMAIN snapshots
        /\ snapshots[e.id]
             = [volName |-> e.volumeID, volAZ |-> e.volumeAZ, tags |-> e.tags]

\* A tagged snapshot was returned, and a later CreateSnapshot call for the same
\* volume, then a DeleteSnapshot of the tagged one, have returned since.
C8_Witness ==
    \E e \in DOMAIN returned :
        /\ e.tags = ("k" :> "v")
        /\ \E f \in DOMAIN returned : f.id # e.id /\ f.volumeID = e.volumeID
        /\ last.op = "DeleteSnapshot"
        /\ last.args.snapshotID = e.id

\* C9: collision resilience.  When the first K candidates a CreateSnapshot
\* call draws are keys of the snapshot map and the next one is not, the call's
\* snapshot id is that next candidate; the id is never a key the snapshot map
\* had when the call started.
C9_CollisionResilience ==
    [][last'.op = "CreateSnapshot"
       => LET d == last'.args.draws
              id == last'.args.snapshotID
          IN  /\ \A K \in 0..(Len(d) - 1) :
                   (/\ \A i \in 1..K : CandidateID(d[i]) \in DOMAIN snapshots
                    /\ CandidateID(d[K + 1]) \notin DOMAIN snapshots)
                   => id = CandidateID(d[K + 1])
              /\ id \notin DOMAIN snapshots]_vars

\* A call has drawn a candidate in use first and has taken its last draw.
C9_Witness ==
    /\ last.op = "CreateSnapshot"
    /\ Len(last.args.draws) >= 2
    /\ last.args.snapshotID = CandidateID(last.args.draws[Len(last.args.draws)])
    /\ CandidateID(last.args.draws[1]) \in DOMAIN snapshots
    /\ CandidateID(last.args.draws[1]) # last.args.snapshotID

\* C10: atomic volume registration.  The check and the insert of a Volume
\* record are one step: of the calls that run together for one name, one
\* creates the record and the others leave it: the statement that writes a
\* call's Volume record replaces no record another call has created.
C10_AtomicRegistration ==
    [][\A t \in Calls :
         (WriteVolume(t) \/ WritePV(t))
         => \A n \in DOMAIN volumes : volumes'[n] = volumes[n]]_vars

\* C11: snapshot insertion never overwrites.  In every interleaving of
\* concurrent CreateSnapshot calls the statement that writes a call's Snapshot
\* record replaces no record: every record of the snapshot map stays as it is.
C11_SnapshotNeverReplaced ==
    [][\A t \in Calls :
         WriteSnapshot(t)
         => \A id \in DOMAIN snapshots : snapshots'[id] = snapshots[id]]_vars


\* Where a snapshot id stands: "absent" while it is no key of the snapshot map,
\* "durable" once a Snapshot resource of that name exists, and "retained" when
\* the map holds it without a resource (the Create request is pending, has
\* failed or was never issued).
SnapshotState(snaps, resources, id) ==
    CASE id \notin DOMAIN snaps -> "absent"
      [] \E c \in resources : c.name = id -> "durable"
      [] OTHER -> "retained"

\* The ids the calls can name.
AllSnapshotIDs == { CandidateID(s) : s \in Suffixes } \cup SnapshotIDs

C14_StatusQueriesConstant ==
    [][/\ last'.op = "IsVolumeReady"
          => /\ last'.ret.ready = TRUE
             /\ last'.err = ""
       /\ last'.op = "GetVolumeInfo"
          => /\ last'.ret.id = "longhorn-volume"
             /\ last'.ret.iops = "nil"
             /\ last'.err = ""
       /\ last'.op \in {"IsVolumeReady", "GetVolumeInfo"}
          => /\ RegistryUnchanged
             /\ lhSnapshots' = lhSnapshots
             /\ UNCHANGED << config, k8sClient, lhClient, returned >>]_vars

\* IsVolumeReady has answered true for a volume id without a record, while
\* other volumes are registered.
C14_Witness ==
    /\ last.op = "IsVolumeReady"
    /\ last.ret.ready = TRUE
    /\ last.args.volumeID \notin DOMAIN volumes
    /\ DOMAIN volumes # {}


\* C15: identifier loop termination.  With a generator that in the end draws
\* an unused candidate, every CreateSnapshot call that is in the retry loop
\* leaves it for the registration of the volume (unless a concurrent map access
\* has aborted the process), and a call leaves the loop only with a candidate
\* that is not a key of the snapshot map.
C15_LoopTerminates ==
    /\ \A t \in Calls :
         (pc[t] = "generate") ~> (pc[t] \in {"checkVolume", "crashed"})
    /\ [][\A t \in Calls :
            (pc[t] = "generate" /\ pc'[t] # "generate" /\ pc'[t] # "crashed")
            => /\ pc'[t] = "checkVolume"
               /\ frame'[t].snapshotID \notin DOMAIN snapshots]_vars

\* One call has drawn a candidate in use and is in the loop for another turn,
\* while another call has left the loop and written its snapshot.
C15_Witness ==
    \E t, u \in Calls :
        /\ pc[t] = "generate"
        /\ frame[t].snapshotID \in DOMAIN snapshots
        /\ pc[u] \in {"create", "inFlight"}
        /\ frame[u].snapshotID = frame[t].snapshotID


\* C16: re-initialization preserves the registry.  Every Init call, whether it
\* returns nil or an error and whatever was called before, leaves the volume
\* map and the snapshot map with the keys and records they had, both maps
\* existing afterwards; besides the configuration and the client handles
\* nothing changes.
C16_InitPreservesRegistry ==
    [][last'.op = "Init"
       => /\ DOMAIN volumes' = DOMAIN volumes
          /\ \A n \in DOMAIN volumes : volumes'[n] = volumes[n]
          /\ DOMAIN snapshots' = DOMAIN snapshots
          /\ \A id \in DOMAIN snapshots : snapshots'[id] = snapshots[id]
          /\ ~volumesIsNil'
          /\ ~snapshotsIsNil'
          /\ config' \in Configs
          /\ last'.err = "" => k8sClient' = "set" /\ lhClient' = "set"
          /\ UNCHANGED << lhSnapshots, returned >>]_vars

\* Init has returned an error on a plugin that was initialized before and
\* holds volumes and snapshots.
C16_Witness ==
    /\ last.op = "Init"
    /\ last.err # ""
    /\ lhClient = "set"
    /\ DOMAIN volumes # {}
    /\ DOMAIN snapshots # {}


\* C17: referential integrity of snapshots.  With calls one at a time, in
\* every reachable state the source volume name of every Snapshot record is a
\* key of the volume map.
C17_SnapshotsReferToVolumes ==
    \A id \in DOMAIN snapshots : snapshots[id].volName \in DOMAIN volumes

\* Two snapshots are recorded, one of them of a volume that GetVolumeID had
\* registered before.
C17_Witness ==
    /\ Cardinality(DOMAIN snapshots) >= 2
    /\ \E id \in DOMAIN snapshots :
         /\ snapshots[id].volName \in DOMAIN volumes
         /\ volumes[snapshots[id].volName].storageClass # ""

\* C18: key equals recorded name.  In every reachable state the Volume record
\* under key k has volName k; a SetVolumeID call that succeeds for volume id v
\* returns an object named v, and no SetVolumeID call changes the volume map or
\* the snapshot map.
C18_KeyEqualsName ==
    [][/\ \A k \in DOMAIN volumes : volumes[k].volName = k
       /\ \A k \in DOMAIN volumes' : volumes'[k].volName = k
       /\ last'.op = "SetVolumeID"
          => /\ RegistryUnchanged
             /\ last'.err = "" => last'.ret.pv.name = last'.args.volumeID]_vars

\* SetVolumeID has renamed an object of another name to a volume id that
\* CreateSnapshot had registered.
C18_Witness ==
    /\ last.op = "SetVolumeID"
    /\ last.err = ""
    /\ last.args.pv.name # last.args.volumeID
    /\ last.ret.pv.name = last.args.volumeID
    /\ last.args.volumeID \in DOMAIN volumes
    /\ volumes[last.args.volumeID].volAZ # ""

=============================================================================
